---- MODULE Spec2Model ----
(***************************************************************************)
(* Memberful OAuth2 server-side-app example (Express + Passport).          *)
(*                                                                         *)
(* The model follows src/src/index.js and its earlier revision             *)
(* src/unnamed/part_000: the two routes guarded by                         *)
(* passport.authenticate('oauth2'), the verify callback                    *)
(* handleSuccessfulOAuthFlow, the global stored_refresh_token and the      *)
(* refresh request.  The provider (token endpoint, member API) and the     *)
(* clock are the environment.  Each HTTP request is one slot of Reqs and   *)
(* moves through the asynchronous steps of its handler; steps of different *)
(* requests interleave as Node's event loop interleaves them.              *)
(***************************************************************************)
EXTENDS Integers, Sequences, FiniteSets, TLC

\* ---------------------------------------------------------------- bounds
NumSessions == 2
MaxReqs == 2
MaxTime == 1
MaxRevoked == 1

\* Access tokens are valid for 15 minutes: one unit of the model's clock.
ExpiresIn == 1

Sessions == 1..NumSessions
Reqs == 1..MaxReqs

\* ------------------------------------------------------------- constants
\* JavaScript's null (the initial stored_refresh_token), a token not yet
\* received, and a falsy (empty) response body.
NULL == [null |-> TRUE]
NoToken == [none |-> TRUE]
NoData == [empty |-> TRUE]
\* A query string without a `state` parameter.
NoState == "nostate"

beginOAuthFlowWithPassportURL == "/login"
callbackURL == "/callback"
Routes == {beginOAuthFlowWithPassportURL, callbackURL}

\* The options object handed to new OAuth2Strategy has no `state` key, so
\* the strategy keeps no state store: no state is put on the redirect to
\* the provider and none is verified on the way back.
StateOption == FALSE

States == {NoState, "st1"}
Codes == {"none", "good", "bad"}
Errors == {"none", "access_denied", "server_error"}
\* The query strings a request may carry: a plain visit, a callback with a
\* code (with or without a state), and a callback with an error (which the
\* strategy looks at first, whether a code comes with it or not).
Queries ==
    [code : Codes, error : {"none"}, state : States]
      \cup [code : {"none", "good"}, error : Errors \ {"none"}, state : {NoState}]

\* Token material returned by the code exchange of request r.
ExchangeAT(r) == [origin |-> r, via |-> "exchange"]
ExchangeRT(r) == [origin |-> r, gen |-> 0]
\* Token material returned by the refresh that request r issued.
RefreshAT(r) == [origin |-> r, via |-> "refresh"]
RotatedRT(t) == [origin |-> t.origin, gen |-> t.gen + 1]

\* The payload the member API returns for an access token.
Profile(at) ==
    [currentMember |-> [id |-> at.origin, email |-> "email", fullName |-> "name"]]

VARIABLES
    build,                  \* which revision of the file is running
    stored_refresh_token,   \* the module-level variable
    sessionUser,            \* session store: passport.user of each session
    sessionState,           \* session store: the state kept by the strategy
    pendingAuth,            \* the session has been sent to the provider
    req,                    \* the requests and where their handlers stand
    revoked,                \* provider: refresh tokens no longer valid
    clock,                  \* provider's time
    crashed                 \* the Node process has terminated

vars == <<build, stored_refresh_token, sessionUser, sessionState, pendingAuth,
          req, revoked, clock, crashed>>

IdleReq ==
    [pc |-> "idle", sess |-> 0, route |-> "",
     query |-> [code |-> "none", error |-> "none", state |-> NoState],
     issuedState |-> NoState,
     exchanged |-> "no", at |-> NoToken, rt |-> NoToken, atExpires |-> 0,
     fetchAT |-> NoToken, fetchTime |-> 0, fetches |-> 0, fetchResult |-> "none",
     user |-> NoData, response |-> "none", rendered |-> NoData,
     refresh |-> "none", refreshSent |-> NoToken, refreshes |-> 0,
     refreshAT |-> NoToken]

Init ==
    /\ build \in {"index", "part_000"}
    /\ stored_refresh_token = NULL
    /\ sessionUser = [s \in Sessions |-> NoData]
    /\ sessionState = [s \in Sessions |-> NoState]
    /\ pendingAuth = [s \in Sessions |-> FALSE]
    /\ req = [r \in Reqs |-> IdleReq]
    /\ revoked = {}
    /\ clock = 0
    /\ crashed = FALSE

\* ------------------------------------------------- session authentication
\* req.isAuthenticated(): the session holds a user.
Authenticated(s) == sessionUser[s] # NoData

\* ------------------------------------------------------ strategy's state
\* What the strategy's state store puts in the session on the redirect to
\* the provider: nothing without the `state` option.
StoreState(s) == IF StateOption THEN "st1" ELSE NoState

\* What the strategy's state store answers on the callback: without the
\* `state` option every callback is accepted.
VerifyState(s, st) == IF StateOption THEN st # NoState /\ st = sessionState[s] ELSE TRUE

\* ------------------------------------------------------------- passport
\* passport.serializeUser: builds myUser and then hands `user` itself on.
serializeUser(user) == user

\* passport.deserializeUser: hands the stored value on.
deserializeUser(stored) == stored

\* strategy.fail() as passport.authenticate renders it on each route: the
\* callback route has a failureRedirect, the login route has none.
FailResponse(route) ==
    IF route = callbackURL THEN "redirect_login" ELSE "unauthorized"

\* strategy.error() goes to next(err): Express answers with its error page.
ErrorResponse == "error_page"

\* The route's own handler, reached after strategy.success(): the callback
\* route renders req.user, the login route has no handler of its own.
RouteResponse(route) ==
    IF route = callbackURL THEN "member_page" ELSE "not_found"

\* What is kept of a request: its query is gone once the token endpoint has
\* been asked, its timings once it has been answered (or has been left
\* without an answer).
Trim(q) ==
    LET a == IF q.pc \in {"exchange_reply", "fetching", "done", "hung"}
             THEN [q EXCEPT !.query = IdleReq.query,
                            !.issuedState = IdleReq.issuedState]
             ELSE q
        b == IF a.pc \in {"done", "hung"}
             THEN [a EXCEPT !.atExpires = IdleReq.atExpires,
                            !.fetchTime = IdleReq.fetchTime]
             ELSE a
    IN  b

Set(r, upd) == [req EXCEPT ![r] = Trim(upd)]

\* refresh.requestNewAccessToken(strategy.name, stored_refresh_token, cb):
\* the request r carries after the refresh has been sent.
SendRefresh(q) ==
    [q EXCEPT !.refresh = "sent", !.refreshSent = stored_refresh_token,
              !.refreshes = @ + 1]

\* Where each revision issues the refresh: index.js inside the verify
\* callback (whatever the route), part_000 in the callback route's handler.
RefreshInVerify == build = "index"
RefreshInRoute(route) == build = "part_000" /\ route = callbackURL

\* ----------------------------------------------------------- operations
\* A request arrives at one of the two routes; passport.session() loads
\* req.user, then the strategy's authenticate() runs up to its first
\* asynchronous call.
\* (The provider sends the user agent back to the registered redirect URL,
\* so a code or an error comes in on the callback route.)
Arrive(r, s, route, q) ==
    /\ ~crashed
    /\ req[r].pc = "idle"
    /\ \A p \in Reqs : p < r => req[p].pc # "idle"
    /\ \A t \in Sessions : t < s => \E p \in Reqs : req[p].sess = t
    /\ route = beginOAuthFlowWithPassportURL => q.code = "none" /\ q.error = "none"
    /\ LET base == [req[r] EXCEPT !.sess = s, !.route = route, !.query = q,
                        !.issuedState = sessionState[s]]
       IN  IF q.error = "access_denied"
           THEN /\ req' = Set(r, [base EXCEPT !.pc = "done",
                                      !.response = FailResponse(route)])
                /\ UNCHANGED <<sessionState, pendingAuth>>
           ELSE IF q.error # "none"
           THEN /\ req' = Set(r, [base EXCEPT !.pc = "done",
                                      !.response = ErrorResponse])
                /\ UNCHANGED <<sessionState, pendingAuth>>
           ELSE IF q.code # "none"
           THEN IF VerifyState(s, q.state)
                THEN /\ req' = Set(r, [base EXCEPT !.pc = "exchanging"])
                     /\ sessionState' = [sessionState EXCEPT ![s] = NoState]
                     /\ UNCHANGED pendingAuth
                ELSE /\ req' = Set(r, [base EXCEPT !.pc = "done",
                                           !.response = FailResponse(route)])
                     /\ UNCHANGED <<sessionState, pendingAuth>>
           ELSE /\ req' = Set(r, [base EXCEPT !.pc = "done",
                                      !.response = "redirect_provider"])
                /\ sessionState' = [sessionState EXCEPT ![s] = StoreState(s)]
                /\ pendingAuth' = [pendingAuth EXCEPT ![s] = TRUE]
    /\ UNCHANGED <<build, stored_refresh_token, sessionUser, revoked, clock, crashed>>

\* The token endpoint answers the POST of the code exchange.
ProviderToken(r, ok) ==
    /\ ~crashed
    /\ req[r].pc = "exchanging"
    /\ ok => req[r].query.code = "good"
    /\ req' = Set(r, [req[r] EXCEPT !.pc = "exchange_reply",
                          !.exchanged = IF ok THEN "ok" ELSE "fail",
                          !.at = IF ok THEN ExchangeAT(r) ELSE NoToken,
                          !.rt = IF ok THEN ExchangeRT(r) ELSE NoToken,
                          !.atExpires = IF ok THEN clock + ExpiresIn ELSE 0])
    /\ UNCHANGED <<build, stored_refresh_token, sessionUser, sessionState,
                   pendingAuth, revoked, clock, crashed>>

\* A variant of ExchangeFailed that goes on to the member API although the
\* exchange gave no token.
ExchangeFailedFetchesAnyway(r) ==
    /\ req' = Set(r, [req[r] EXCEPT !.pc = "fetching", !.fetchAT = req[r].at,
                          !.fetchTime = clock, !.fetches = @ + 1])
    /\ UNCHANGED stored_refresh_token

\* The exchange failed: the strategy calls error() and the verify callback
\* is never called.
ExchangeFailed(r) ==
    /\ req' = Set(r, [req[r] EXCEPT !.pc = "done", !.response = ErrorResponse])
    /\ UNCHANGED stored_refresh_token

\* A variant of ExchangeSucceeded that does not keep the refresh token.
ExchangeSucceededForgetsToken(r) ==
    /\ UNCHANGED stored_refresh_token
    /\ req' = Set(r, [req[r] EXCEPT !.pc = "fetching", !.fetchAT = req[r].at,
                          !.fetchTime = clock, !.fetches = @ + 1])

\* The exchange succeeded: the strategy calls the verify callback
\* handleSuccessfulOAuthFlow(access_token, refresh_token, profile, callback),
\* which stores the refresh token in the global and sends the GET to the
\* member API with the access token it was given, then awaits the answer.
ExchangeSucceeded(r) ==
    /\ stored_refresh_token' = req[r].rt
    /\ req' = Set(r, [req[r] EXCEPT !.pc = "fetching", !.fetchAT = req[r].at,
                          !.fetchTime = clock, !.fetches = @ + 1])

\* The strategy receives the answer of the token endpoint.
ExchangeResponse(r) ==
    /\ ~crashed
    /\ req[r].pc = "exchange_reply"
    /\ IF req[r].exchanged = "fail" THEN ExchangeFailed(r) ELSE ExchangeSucceeded(r)
    /\ UNCHANGED <<build, sessionUser, sessionState, pendingAuth, revoked,
                   clock, crashed>>

\* What the member API answers to a GET carrying the access token of
\* request r: 401 once the token has expired, otherwise the profile, an
\* empty body or some other failure.
FetchOutcomes(r) ==
    IF clock >= req[r].atExpires
    THEN {"unauthorized"}
    ELSE {"ok", "empty", "upstream_error"}

\* A variant of VerifiedUser that hands on the profile of whichever flow
\* stored its refresh token last.
VerifiedUserOfLatest(r, data) ==
    IF data = NoData THEN NoData
    ELSE Profile(ExchangeAT(stored_refresh_token.origin))

\* A variant of VerifiedUser that hands the tokens on together with the
\* profile.
VerifiedUserWithTokens(r, data) ==
    IF data = NoData THEN NoData
    ELSE [currentMember |-> data.currentMember,
          access_token |-> req[r].fetchAT, refresh_token |-> req[r].rt]

\* What the verify callback hands to the strategy as the user:
\* callback(null, memberDataResponse.data).
VerifiedUser(r, data) == data

\* The awaited axios.get resolved.  index.js sends the refresh from the
\* verify callback; callback(null, data) makes the strategy log the user in
\* (or fail, on an empty body) and the route answer with req.user; part_000
\* sends the refresh from the callback route's handler, after the answer.
FetchSucceeded(r, outcome) ==
    LET q == [req[r] EXCEPT !.fetchResult = outcome]
        s == req[r].sess
        data == IF outcome = "ok" THEN Profile(req[r].fetchAT) ELSE NoData
        user == VerifiedUser(r, data)
        q1 == IF RefreshInVerify THEN SendRefresh(q) ELSE q
        q2 == [q1 EXCEPT !.pc = "done", !.user = user,
                   !.response = RouteResponse(q.route),
                   !.rendered = IF q.route = callbackURL THEN user ELSE NoData]
    IN  IF user # NoData
        THEN /\ req' = Set(r, IF RefreshInRoute(q.route) THEN SendRefresh(q2) ELSE q2)
             /\ sessionUser' = [sessionUser EXCEPT ![s] = serializeUser(user)]
             /\ UNCHANGED crashed
        ELSE /\ req' = Set(r, [q1 EXCEPT !.pc = "done",
                                   !.response = FailResponse(q.route)])
             /\ UNCHANGED <<sessionUser, crashed>>

\* A variant of FetchFailed that asks for a new access token when the fetch
\* is rejected.
FetchFailedRefreshes(r, outcome, dies) ==
    /\ req' = Set(r, SendRefresh([req[r] EXCEPT !.fetchResult = outcome,
                                      !.pc = "hung"]))
    /\ crashed' = dies
    /\ UNCHANGED sessionUser

\* A variant of FetchFailed that sends the GET once more with the same
\* access token.
FetchFailedRetries(r, outcome, dies) ==
    /\ IF req[r].fetches < 2
       THEN req' = Set(r, [req[r] EXCEPT !.fetchResult = outcome,
                               !.fetchTime = clock, !.fetches = @ + 1])
       ELSE req' = Set(r, [req[r] EXCEPT !.fetchResult = outcome, !.pc = "hung"])
    /\ crashed' = dies
    /\ UNCHANGED sessionUser

\* The awaited axios.get rejected.  The catch block logs the error and then
\* evaluates `res`, which is not defined in that scope: the async function
\* rejects, the strategy's callback is never called and nobody answers the
\* request.  The unhandled rejection ends the process or is only reported,
\* as the runtime's unhandled-rejections mode has it.
FetchFailed(r, outcome, dies) ==
    /\ req' = Set(r, [req[r] EXCEPT !.fetchResult = outcome, !.pc = "hung"])
    /\ crashed' = dies
    /\ UNCHANGED sessionUser

\* The GET to the member API settles.
FetchResponse(r, outcome, dies) ==
    /\ ~crashed
    /\ req[r].pc = "fetching"
    /\ outcome \in FetchOutcomes(r)
    /\ IF outcome \in {"ok", "empty"}
       THEN dies = FALSE /\ FetchSucceeded(r, outcome)
       ELSE FetchFailed(r, outcome, dies)
    /\ UNCHANGED <<build, stored_refresh_token, sessionState, pendingAuth,
                   revoked, clock>>

\* What the token endpoint may answer to a refresh carrying token t: an
\* error for a token it has invalidated (or for none at all), otherwise a
\* new access token with the same or a rotated refresh token, or a failure.
RefreshOutcomes(t) ==
    IF t = NULL \/ t \in revoked
    THEN {"error"}
    ELSE {"same", "rotated", "error"}

\* The refresh token in the token endpoint's answer to a refresh of t.
ReturnedRT(t, outcome) == IF outcome = "rotated" THEN RotatedRT(t) ELSE t

\* A variant of RefreshCallback that ends the session's login when the
\* refresh fails.
RefreshCallbackLogsOut(r, outcome) ==
    /\ req' = Set(r, [req[r] EXCEPT !.refresh = outcome,
                          !.refreshAT = IF outcome = "error" THEN NoToken
                                        ELSE RefreshAT(r)])
    /\ sessionUser' = IF outcome = "error"
                      THEN [sessionUser EXCEPT ![req[r].sess] = NoData]
                      ELSE sessionUser
    /\ UNCHANGED <<stored_refresh_token, crashed>>

\* A variant of RefreshCallback that throws when it is handed an error.
RefreshCallbackThrows(r, outcome) ==
    /\ req' = Set(r, [req[r] EXCEPT !.refresh = outcome,
                          !.refreshAT = IF outcome = "error" THEN NoToken
                                        ELSE RefreshAT(r)])
    /\ crashed' = (outcome = "error")
    /\ UNCHANGED <<stored_refresh_token, sessionUser>>

\* function (err, accessToken, refreshToken) given to
\* refresh.requestNewAccessToken: it logs the error, or logs the new tokens;
\* it assigns nothing and answers nobody.
RefreshCallback(r, outcome) ==
    /\ req' = Set(r, [req[r] EXCEPT !.refresh = outcome,
                          !.refreshAT = IF outcome = "error" THEN NoToken
                                        ELSE RefreshAT(r)])
    /\ UNCHANGED <<stored_refresh_token, sessionUser, crashed>>

\* The token endpoint answers the refresh (a rotation invalidates the token
\* that was presented) and the callback runs.
RefreshResponse(r, outcome) ==
    /\ ~crashed
    /\ req[r].refresh = "sent"
    /\ outcome \in RefreshOutcomes(req[r].refreshSent)
    /\ revoked' = IF outcome = "rotated" THEN revoked \cup {req[r].refreshSent}
                  ELSE revoked
    /\ RefreshCallback(r, outcome)
    /\ UNCHANGED <<build, sessionState, pendingAuth, clock>>

\* The refresh tokens the token endpoint has handed out in code exchanges.
\* (Those it hands out in refreshes are never presented to it again.)
IssuedRT == {req[r].rt : r \in {p \in Reqs : req[p].exchanged = "ok"}}

\* The provider invalidates a refresh token (expiry after a year, or the
\* member revoking the application).
ProviderRevoke(t) ==
    /\ ~crashed
    /\ t \in IssuedRT \ revoked
    /\ Cardinality(revoked) < MaxRevoked
    /\ revoked' = revoked \cup {t}
    /\ UNCHANGED <<build, stored_refresh_token, sessionUser, sessionState,
                   pendingAuth, req, clock, crashed>>

\* Time passes.
Tick ==
    /\ ~crashed
    /\ clock < MaxTime
    /\ clock' = clock + 1
    /\ UNCHANGED <<build, stored_refresh_token, sessionUser, sessionState,
                   pendingAuth, req, revoked, crashed>>

Next ==
    \/ \E r \in Reqs, s \in Sessions, route \in Routes, q \in Queries :
          Arrive(r, s, route, q)
    \/ \E r \in Reqs, ok \in BOOLEAN : ProviderToken(r, ok)
    \/ \E r \in Reqs : ExchangeResponse(r)
    \/ \E r \in Reqs, outcome \in {"ok", "empty", "upstream_error", "unauthorized"},
          dies \in BOOLEAN : FetchResponse(r, outcome, dies)
    \/ \E r \in Reqs, outcome \in {"same", "rotated", "error"} :
          RefreshResponse(r, outcome)
    \/ \E r \in Reqs : ProviderRevoke(ExchangeRT(r))
    \/ Tick

Spec == Init /\ [][Next]_vars

\* ================================================================ claims
FailureResponses == {"redirect_login", "unauthorized", "error_page"}

\* A callback whose `state` is not the one issued to its session, or that
\* carries none.
StateMismatch(r) ==
    \/ req[r].query.state = NoState
    \/ req[r].query.state # req[r].issuedState

\* C1: a callback whose state does not match the state issued to its
\* session (or that carries none) never gets as far as the POST to the
\* token endpoint.
C1_MismatchNeverExchanges ==
    \A r \in Reqs : req[r].pc = "exchanging" => ~StateMismatch(r)

\* C2: a request whose profile fetch failed has been answered (the failure
\* is rendered or redirected, the request is not left hanging).
C2_FetchFailureAnswered ==
    \A r \in Reqs :
        req[r].fetchResult \in {"unauthorized", "upstream_error"}
            => req[r].response # "none"

\* C3: the refresh token a request hands to refresh.requestNewAccessToken
\* was issued by a code exchange of the request's own session.
C3_RefreshUsesOwnSessionToken ==
    \A r \in Reqs :
        req[r].refresh = "sent"
            => req[req[r].refreshSent.origin].sess = req[r].sess

\* C4: when a refresh succeeds, the persisted stored_refresh_token is the
\* refresh token of that refresh response, rotated or not.
C4_PersistsReturnedRefreshToken ==
    [][\A r \in Reqs :
          (req[r].refresh = "sent" /\ req'[r].refresh \in {"same", "rotated"})
              => stored_refresh_token'
                   = ReturnedRT(req[r].refreshSent, req'[r].refresh)]_vars

C7_InvalidatedRefreshYieldsError ==
    [][\A r \in Reqs :
          (/\ req[r].refresh = "sent"
           /\ req[r].refreshSent \in revoked
           /\ req'[r].refresh # "sent")
              => /\ req'[r].refresh = "error"
                 /\ crashed' = FALSE
                 /\ req'[r].response = req[r].response
                 /\ req'[r].pc = req[r].pc]_vars

C7_Witness ==
    \E r \in Reqs :
        /\ req[r].refresh = "error"
        /\ req[r].refreshSent \in revoked
        /\ req[r].response = "member_page"
        /\ ~crashed

\* C8: a callback that fails stores no user in its session, and a session
\* becomes Authenticated only by a successful code exchange of a request of
\* that session, the session having been sent to the provider before.
C8_AuthenticatedOnlyFromPending ==
    [][/\ \A r \in Reqs :
            (req[r].response = "none" /\ req'[r].response \in FailureResponses)
                => sessionUser'[req'[r].sess] = sessionUser[req'[r].sess]
       /\ \A s \in Sessions :
            (~Authenticated(s) /\ sessionUser'[s] # NoData)
                => /\ pendingAuth[s]
                   /\ \E r \in Reqs : req[r].sess = s /\ req[r].exchanged = "ok"]_vars

\* C9: a request sends the GET to the member API only after its own code
\* exchange has succeeded, with the access token of that exchange's answer;
\* while the exchange is pending, and after it has failed, no GET is sent.
C9_FetchOnlyAfterOwnExchange ==
    \A r \in Reqs :
        /\ req[r].fetches > 0
             => /\ req[r].exchanged = "ok"
                /\ req[r].fetchAT = ExchangeAT(r)
                /\ req[r].fetchAT = req[r].at
        /\ (req[r].pc \in {"idle", "exchanging", "exchange_reply"}
              \/ req[r].exchanged = "fail")
             => req[r].fetches = 0 /\ req[r].fetchAT = NoToken

C9_Witness ==
    \E r, p \in Reqs :
        /\ req[r].pc = "fetching" /\ req[r].fetchAT = ExchangeAT(r)
        /\ req[p].exchanged = "fail" /\ req[p].pc = "done"

C11_RendersOwnPayload ==
    \A r \in Reqs :
        req[r].response = "member_page"
            => /\ req[r].fetchAT = req[r].at
               /\ req[r].rendered = Profile(req[r].at)

C11_Witness ==
    \E r, p \in Reqs :
        /\ req[r].response = "member_page"
        /\ req[r].rendered = Profile(req[r].at)
        /\ req[p].sess # req[r].sess
        /\ req[p].exchanged = "ok"
        /\ stored_refresh_token = req[p].rt

\* What a stored user holds besides the member's profile.
BesidesProfile(u) ==
    IF u = NoData THEN {} ELSE {u[f] : f \in DOMAIN u \ {"currentMember"}}

\* The token material issued to the requests of session s.
TokensOf(s) ==
    UNION {{req[r].at, req[r].rt, req[r].refreshAT} :
             r \in {p \in Reqs : req[p].sess = s}} \ {NoToken}

\* C12: what serializeUser stored for a session, and what deserializeUser
\* gives back as req.user, holds neither an access token nor a refresh
\* token issued to that session.
C12_SessionHoldsNoTokens ==
    \A s \in Sessions :
        /\ BesidesProfile(sessionUser[s]) \cap TokensOf(s) = {}
        /\ BesidesProfile(deserializeUser(sessionUser[s])) \cap TokensOf(s) = {}
        /\ Authenticated(s) =>
             DOMAIN sessionUser[s].currentMember = {"id", "email", "fullName"}

C12_Witness ==
    \E s \in Sessions, r \in Reqs :
        /\ Authenticated(s)
        /\ req[r].sess = s
        /\ req[r].user = sessionUser[s]
        /\ {req[r].at, req[r].rt} \subseteq TokensOf(s)
        /\ req[r].refreshAT \in TokensOf(s)

\* C13: a request to the callback route from a session that is already
\* Authenticated is let through to the member-data page, with no redirect
\* and no new code exchange.
C13_AuthenticatedIsLetThrough ==
    [][\A r \in Reqs :
          (/\ req[r].pc = "idle"
           /\ req'[r].pc # "idle"
           /\ req'[r].route = callbackURL
           /\ Authenticated(req'[r].sess))
              => /\ req'[r].response = "member_page"
                 /\ req'[r].pc = "done"]_vars

\* C14: what serializeUser hands to the session for a user has the fields
\* id, email and fullName and no others.
C14_SerializesSubset ==
    \A r \in Reqs :
        req[r].user # NoData
            => DOMAIN serializeUser(req[r].user) \subseteq {"id", "email", "fullName"}

\* C15: no refresh is sent while stored_refresh_token is still null: the
\* token a refresh carries is one that a successful code exchange returned
\* and the verify callback stored.
C15_RefreshAfterStore ==
    \A r \in Reqs :
        req[r].refreshes > 0
            => /\ req[r].refreshSent # NULL
               /\ stored_refresh_token # NULL
               /\ \E p \in Reqs : /\ req[p].exchanged = "ok"
                                  /\ req[p].pc \notin {"exchanging", "exchange_reply"}
                                  /\ req[r].refreshSent = req[p].rt

C15_Witness ==
    \E r \in Reqs :
        /\ req[r].refresh = "sent"
        /\ req[r].refreshes = 1
        /\ req[r].refreshSent = stored_refresh_token
        /\ req[r].refreshSent = req[r].rt

====
